---- MODULE Spec2Model ----
(***************************************************************************)
(* State-machine model of lib/connection.js (node-amqp): the Connection    *)
(* object, its listeners (connect, data, error, ready, end), the channel   *)
(* id allocator, the handshake on channel 0 and the reconnection timer.    *)
(*                                                                         *)
(* Handlers call each other synchronously (emit inside a handler), so each *)
(* handler is an operator from a state record to a state record and an     *)
(* action applies one whole handler to the current state.                  *)
(***************************************************************************)
EXTENDS Integers, Sequences, FiniteSets, TLC

\* ---------------------------------------------------------------- bounds
MaxSockets == 3      \* transports created by connect()/reconnect()
MaxRcvd == 3         \* methods dispatched per transport
MaxSent == 5         \* frames written per transport before heartbeats stop
MaxChannelMax == 3   \* largest channelMax a Connection.Tune negotiates
MaxAllocs == 5       \* exchange()/queue() calls in an allocation run
HsSockets == 2       \* transports in a handshake run
HsRcvd == 3          \* methods dispatched per transport in a handshake run
HbSockets == 2       \* transports in a heartbeat run
HbRcvd == 3          \* methods dispatched per transport in a heartbeat run
BeatRcvd == 3        \* methods dispatched in an outbound heartbeat run
MaxFrame == 11       \* largest frameMax negotiated in a publishing run
MaxBody == 5         \* longest body, in bytes, passed to _sendBody
MaxHosts == 3        \* longest options.host array
HostSockets == 4     \* transports created in a host selection run
TuneSockets == 2     \* transports in a negotiation run
TuneRcvd == 2        \* methods dispatched per transport in a negotiation run
TuneAllocs == 3      \* queue() calls in a negotiation run
BlockSockets == 2    \* transports in a flow control run
BlockRcvd == 3       \* methods dispatched per transport in a flow control run

\* ------------------------------------------------------- program constants
null == -1                       \* var backoffTime = null
defaultMaxFrameBuffer == 131072
defaultChannelMax == 65535
metaSize == 8                    \* headerBytes = 7, frameEndBytes = 1

VARIABLES
  options,                   \* this.options: heartbeat, heartbeatForceReconnect,
                             \* host (length of the array, 0 for one host
                             \* name), hostPreference (<<>> when absent)
  implOptions,               \* this.implOptions
  sockets,                   \* every transport created; this.socket is the last
  channels,                  \* this.channels: id -> state; << >> is undefined
  consumers,                 \* queues' consumerTagOptions: queue id -> state
  channelCounter,            \* this.channelCounter
  channelMax,                \* module variable channelMax
  maxFrameBuffer,            \* module variable maxFrameBuffer
  sendBuffer,                \* length of this._sendBuffer
  parser,                    \* this.parser is set (TRUE) or null/undefined
  readyEmitted,              \* this.readyEmitted
  connectionAttemptScheduled,\* this.connectionAttemptScheduled
  backoffTime,               \* closure variable of addAllListeners
  backoffAttached,           \* the 'error' listener backoff is attached
  timers,                    \* delays of the pending reconnect setTimeouts
  inboundTimer,              \* this._inboundHeartbeatTimer is armed
  outboundTimer,             \* this._outboundHeartbeatTimer is armed
  readyCallback,             \* this._readyCallback is set
  serverProperties,          \* this.serverProperties has been stored
  hosti,                     \* this.hosti: <<>> while undefined, else <<index>>
  random,                    \* Math.random() * host.length of line 595, as the
                             \* decimal d * 10^e its string form starts with
  blocked,                   \* this._blocked
  blockedReason,             \* this._blockedReason: null or a reason
  hist                       \* observations: what was written, emitted, called

vars == <<options, implOptions, sockets, channels, consumers, channelCounter,
          channelMax, maxFrameBuffer, sendBuffer, parser, readyEmitted,
          connectionAttemptScheduled, backoffTime, backoffAttached, timers,
          inboundTimer, outboundTimer, readyCallback, serverProperties, hosti,
          random, blocked, blockedReason, hist>>

\* The whole state as one record, so that handlers compose.
State ==
  [options |-> options, implOptions |-> implOptions, sockets |-> sockets,
   channels |-> channels, consumers |-> consumers,
   channelCounter |-> channelCounter, channelMax |-> channelMax,
   maxFrameBuffer |-> maxFrameBuffer, sendBuffer |-> sendBuffer,
   parser |-> parser, readyEmitted |-> readyEmitted,
   connectionAttemptScheduled |-> connectionAttemptScheduled,
   backoffTime |-> backoffTime, backoffAttached |-> backoffAttached,
   timers |-> timers, inboundTimer |-> inboundTimer,
   outboundTimer |-> outboundTimer, readyCallback |-> readyCallback,
   serverProperties |-> serverProperties, hosti |-> hosti,
   random |-> random, blocked |-> blocked, blockedReason |-> blockedReason,
   hist |-> hist]

Set(s) ==
  /\ options' = s.options
  /\ implOptions' = s.implOptions
  /\ sockets' = s.sockets
  /\ channels' = s.channels
  /\ consumers' = s.consumers
  /\ channelCounter' = s.channelCounter
  /\ channelMax' = s.channelMax
  /\ maxFrameBuffer' = s.maxFrameBuffer
  /\ sendBuffer' = s.sendBuffer
  /\ parser' = s.parser
  /\ readyEmitted' = s.readyEmitted
  /\ connectionAttemptScheduled' = s.connectionAttemptScheduled
  /\ backoffTime' = s.backoffTime
  /\ backoffAttached' = s.backoffAttached
  /\ timers' = s.timers
  /\ inboundTimer' = s.inboundTimer
  /\ outboundTimer' = s.outboundTimer
  /\ readyCallback' = s.readyCallback
  /\ serverProperties' = s.serverProperties
  /\ hosti' = s.hosti
  /\ random' = s.random
  /\ blocked' = s.blocked
  /\ blockedReason' = s.blockedReason
  /\ hist' = s.hist

\* ------------------------------------------------------------- transport
\* this.socket: the index of the last transport created, 0 before connect().
socket(s) == Len(s.sockets)

\* socket.end(): ends the writable side; the transport stays readable.
socketEnd(s, i) ==
  IF i = 0 THEN s ELSE [s EXCEPT !.sockets[i].localEnd = TRUE]

\* socket.destroy(): no further event or byte from this transport.
socketDestroy(s, i) == [s EXCEPT !.sockets[i].st = "closed"]

\* socket.writable and socket.readable of the current transport.
writable(s) ==
  /\ socket(s) > 0
  /\ s.sockets[socket(s)].st \in {"connecting", "open"}
  /\ ~s.sockets[socket(s)].localEnd

readable(s) ==
  socket(s) > 0 /\ s.sockets[socket(s)].st \in {"connecting", "open"}

\* this.write(frame): proxied to the current transport.
write(s, frame) == [s EXCEPT !.hist.sent = Append(@, frame)]

\* ------------------------------------------------------ heartbeat timers
\* _inboundHeartbeatTimerReset: clear, then arm when options.heartbeat is set.
inboundHeartbeatTimerReset(s) ==
  [s EXCEPT !.inboundTimer = (s.options.heartbeat # 0)]

\* Lines 410-413 (also 191-194 and 681-684): clearTimeout of the outbound
\* timer's handle.  outboundTimer says the handle refers to a timer that has
\* not fired; hist.outArmed counts the outbound timers that are pending.
clearOutbound(s) ==
  [s EXCEPT !.outboundTimer = FALSE,
            !.hist.outArmed = @ - (IF s.outboundTimer THEN 1 ELSE 0)]

\* _outboundHeartbeatTimerReset: clear, then arm when the transport is
\* writable and options.heartbeat is set.
outboundHeartbeatTimerReset(s) ==
  LET arm == writable(s) /\ s.options.heartbeat # 0
  IN [clearOutbound(s) EXCEPT !.outboundTimer = arm,
                              !.hist.outArmed = @ + (IF arm THEN 1 ELSE 0)]

\* _sendMethod: write the method frame, then reset the outbound timer.
sendMethod(s, frame) == outboundHeartbeatTimerReset(write(s, frame))

\* heartbeat(): a HEARTBEAT frame when the transport is writable.
heartbeat(s) == IF writable(s) THEN write(s, <<"Heartbeat", 0>>) ELSE s

\* ------------------------------------------------ the 'error' listener
\* Lines 209-213: every non-zero channel's state becomes closed.
closeChannels(chans) ==
  [c \in DOMAIN chans |-> IF c # 0 THEN "closed" ELSE chans[c]]

\* Lines 218-222: every consumer entry of every queue becomes closed.
closeConsumers(cons) ==
  [q \in DOMAIN cons |-> IF cons[q] = "none" THEN "none" ELSE "closed"]

\* The delay of the next attempt with the limit of lines 236-238 left out.
nextBackoffTimeUnlimited(b, io) ==
  IF b = null THEN io.reconnectBackoffTime
  ELSE IF io.reconnectBackoffStrategy = "exponential" THEN b * 2 ELSE b

\* Lines 227-246: the delay of the next attempt.
nextBackoffTime(b, io) ==
  IF b = null THEN io.reconnectBackoffTime
  ELSE IF io.reconnectBackoffStrategy = "exponential"
       THEN IF b * 2 > io.reconnectExponentialLimit
            THEN io.reconnectExponentialLimit
            ELSE b * 2
       ELSE b

\* Lines 248-253: setTimeout(..., backoffTime); the handle is not kept.
scheduleReconnect(s) ==
  LET t == nextBackoffTime(s.backoffTime, s.implOptions)
  IN [s EXCEPT !.backoffTime = t, !.timers = Append(@, t)]

\* The teardown scheduling an attempt whatever implOptions.reconnect says.
teardownAlwaysSchedules(s) ==
  LET s1 == socketEnd([s EXCEPT !.connectionAttemptScheduled = TRUE],
                      socket(s))
      s2 == [s1 EXCEPT !.parser = FALSE,
                       !.channels = closeChannels(@),
                       !.consumers = closeConsumers(@),
                       !.hist.failures = @ + 1]
  IN scheduleReconnect(s2)

\* Lines 196-257: what backoff does when no attempt is pending.
teardown(s) ==
  LET s1 == socketEnd([s EXCEPT !.connectionAttemptScheduled = TRUE],
                      socket(s))
      s2 == [s1 EXCEPT !.parser = FALSE,
                       !.channels = closeChannels(@),
                       !.consumers = closeConsumers(@),
                       !.hist.failures = @ + 1]
  IN IF s2.implOptions.reconnect
     THEN scheduleReconnect(s2)
     ELSE [s2 EXCEPT !.backoffAttached = FALSE]

\* The listener without the test of line 196.
backoffUnguarded(s) ==
  teardown([clearOutbound(s) EXCEPT !.inboundTimer = FALSE])

\* The listener backoff(e), lines 186-258.
backoff(s) ==
  LET s1 == [clearOutbound(s) EXCEPT !.inboundTimer = FALSE]
  IN IF s1.connectionAttemptScheduled THEN s1 ELSE teardown(s1)

\* emit('error', e) with a listener that also clears readyEmitted.
emitErrorClearsReady(s, e) ==
  LET s1 == [s EXCEPT !.hist.lastError = e, !.readyEmitted = FALSE]
  IN IF s.backoffAttached THEN backoff(s1) ELSE s1

\* self.emit('error', e).  The application listens to 'error' too (an
\* EventEmitter with no 'error' listener throws), so emit returns.
emitError(s, e) ==
  LET s1 == [s EXCEPT !.hist.lastError = e]
  IN IF s.backoffAttached THEN backoff(s1) ELSE s1

\* --------------------------------------------------- channel allocation
\* The loop of generateChannelId (lines 884-895) from channelId, with the
\* iterations left before the scan has provably entered a cycle: the ids it
\* visits repeat with period cmax, so a scan that neither breaks nor throws
\* within cmax + 1 iterations never does.
RECURSIVE scanChannelId(_, _, _, _, _)
\* The scan with line 887 written channelId % channelMax (the + 1 lost).
scanFromZero(channelId, counter, chans, cmax, left) ==
  LET next == channelId % cmax
  IN IF left = 0 THEN [kind |-> "loops", id |-> 0]
     ELSE IF next \notin DOMAIN chans THEN [kind |-> "id", id |-> next]
     ELSE IF next = counter THEN [kind |-> "throws", id |-> 0]
     ELSE scanChannelId(next + 1, counter, chans, cmax, left - 1)

\* The scan with line 887 written channelId + 1 (no wrap at channelMax).
scanNoWrap(channelId, counter, chans, cmax, left) ==
  LET next == channelId + 1
  IN IF left = 0 THEN [kind |-> "loops", id |-> 0]
     ELSE IF next \notin DOMAIN chans THEN [kind |-> "id", id |-> next]
     ELSE IF next = counter THEN [kind |-> "throws", id |-> 0]
     ELSE scanChannelId(next, counter, chans, cmax, left - 1)

scanChannelId(channelId, counter, chans, cmax, left) ==
  LET next == (channelId % cmax) + 1
  IN IF left = 0 THEN [kind |-> "loops", id |-> 0]
     ELSE IF next \notin DOMAIN chans THEN [kind |-> "id", id |-> next]
     ELSE IF next = counter THEN [kind |-> "throws", id |-> 0]
     ELSE scanChannelId(next, counter, chans, cmax, left - 1)

\* generateChannelId starting every scan at 0 instead of channelCounter.
generateFromStart(s) ==
  IF DOMAIN s.channels = {} THEN [kind |-> "undefined", id |-> 0]
  ELSE scanChannelId(0, s.channelCounter, s.channels,
                     s.channelMax, s.channelMax + 1)

\* generateChannelId, lines 882-898.  Reading this.channels[channelId]
\* while this.channels is undefined throws (a TypeError).
generateChannelId(s) ==
  IF DOMAIN s.channels = {} THEN [kind |-> "undefined", id |-> 0]
  ELSE scanChannelId(s.channelCounter, s.channelCounter, s.channels,
                     s.channelMax, s.channelMax + 1)

\* exchange() and queue(), lines 302-318 and 330-349: the new handler starts
\* in state opening (a queue with no consumer entry yet); a throw of
\* generateChannelId is emitted as an error.
allocate(s, isQueue) ==
  LET r == generateChannelId(s)
  IN CASE r.kind = "id" ->
            [s EXCEPT !.channelCounter = r.id,
                      !.channels = (r.id :> "opening") @@ @,
                      !.consumers = IF isQueue THEN (r.id :> "none") @@ @ ELSE @,
                      !.hist.returned = Append(@, r.id)]
       [] r.kind = "throws" ->
            emitError([s EXCEPT !.hist.returned = Append(@, 0)],
                      "NoChannelsAvailable")
       [] r.kind = "undefined" ->
            emitError([s EXCEPT !.hist.returned = Append(@, 0)], "TypeError")
       [] OTHER -> [s EXCEPT !.hist.hung = TRUE]

\* --------------------------------------------------- the 'ready' listener
\* A channel's own reconnect(): it asks the server to open the channel.
channelReconnect(s, ch) ==
  sendMethod([s EXCEPT !.hist.chReconnects[ch] = @ + 1],
             <<"ChannelOpen", ch>>)

\* Lines 266-268: for (index in self.channels) in ascending order of index.
RECURSIVE reconnectChannels(_, _)
reconnectChannels(s, todo) ==
  IF todo = {} THEN s
  ELSE LET ch == CHOOSE c \in todo : \A d \in todo : c <= d
       IN reconnectChannels(channelReconnect(s, ch), todo \ {ch})

\* The indices with the test of line 267 always true.
readyIndicesAll(s) == DOMAIN s.channels

\* The indices the 'ready' listener reconnects: index !== '0'.
readyIndices(s) == DOMAIN s.channels \ {0}

\* The 'ready' listener, lines 260-276.
onReady(s) ==
  LET s1 == [s EXCEPT !.backoffTime = null,
                      !.hist.failures = 0,
                      !.hist.readyCount = @ + 1,
                      !.hist.chReconnects = [c \in DOMAIN s.channels |-> 0]]
      s2 == IF s1.implOptions.reconnect
            THEN reconnectChannels(s1, readyIndices(s1))
            ELSE s1
  IN outboundHeartbeatTimerReset([s2 EXCEPT !.readyEmitted = TRUE])

\* ------------------------------------------------------------- _onMethod
\* Line 467: the version test of connectionStart.
badVersion(versionMajor, versionMinor) ==
  versionMajor # 0 /\ versionMinor # 9

\* case methods.connectionStart, lines 465-480.
onStart(s, versionMajor, versionMinor) ==
  IF badVersion(versionMajor, versionMinor)
  THEN emitError(socketEnd(s, socket(s)), "BadServerVersion")
  ELSE sendMethod([s EXCEPT !.serverProperties = TRUE], <<"StartOk", 0>>)

\* Lines 501-508: connectionOpen.
sendOpen(s) == sendMethod(s, <<"Open", 0>>)

\* Lines 495-499: connectionTuneOk carries the module's channelMax and
\* maxFrameBuffer.
sendTuneOk(s) == sendMethod(s, <<"TuneOk", 0, s.channelMax, s.maxFrameBuffer>>)

\* connectionTune replying Open before TuneOk.
onTuneOpenFirst(s, frameMax, chMax) ==
  LET s1 == IF frameMax # 0
            THEN [s EXCEPT !.maxFrameBuffer = frameMax, !.sendBuffer = frameMax]
            ELSE s
      s2 == IF chMax # 0 THEN [s1 EXCEPT !.channelMax = chMax] ELSE s1
  IN sendTuneOk(sendOpen(s2))

\* case methods.connectionTune, lines 483-509.
onTune(s, frameMax, chMax) ==
  LET s1 == IF frameMax # 0
            THEN [s EXCEPT !.maxFrameBuffer = frameMax, !.sendBuffer = frameMax]
            ELSE s
      s2 == IF chMax # 0 THEN [s1 EXCEPT !.channelMax = chMax] ELSE s1
  IN sendOpen(sendTuneOk(s2))

\* The ready callback is invoked; calledAt keeps how many ready events had
\* been emitted on the transport by then.
called(s) ==
  [s EXCEPT !.hist.callbackCalls = @ + 1,
            !.hist.calledAt = Append(@, s.hist.readyCount)]

\* connectionOpenOk leaving this._readyCallback set.
onOpenOkKeepCallback(s) ==
  onReady(IF s.readyCallback THEN called(s) ELSE s)

\* case methods.connectionOpenOk, lines 512-520.
onOpenOk(s) ==
  LET s1 == IF s.readyCallback
            THEN [called(s) EXCEPT !.readyCallback = FALSE]
            ELSE s
  IN onReady(s1)

\* case methods.connectionClose, lines 522-529: socket.destroy(e); the
\* transport emits that error afterwards.
onClose(s) == [s EXCEPT !.sockets[socket(s)].st = "destroyed"]

\* case methods.connectionCloseOk, lines 531-535.
onCloseOk(s) == socketDestroy(socketEnd(s, socket(s)), socket(s))

\* case methods.connectionBlocked, lines 537-542; lastBlock keeps which of
\* Blocked and Unblocked the transport delivered last.
onBlocked(s, reason) ==
  [s EXCEPT !.blocked = TRUE, !.blockedReason = reason,
            !.hist.lastBlock = "Blocked"]

\* case methods.connectionUnblocked, lines 544-549.
onUnblocked(s) ==
  [s EXCEPT !.blocked = FALSE, !.blockedReason = null,
            !.hist.lastBlock = "Unblocked"]

\* A channel handler's _onChannelMethod on Channel.OpenOk: the channel and
\* its subscriptions are open again.
onChannelMethod(s, ch) ==
  [s EXCEPT !.channels[ch] = "open",
            !.consumers = [q \in DOMAIN @ |->
                             IF q = ch /\ @[q] = "closed" THEN "open" ELSE @[q]]]

\* The default case of the switch (lines 551-553) throws.
throws(m) == m[1] = "Other"

\* _onMethod, lines 442-555, for a method that does not throw.
onMethod(s, m) ==
  CASE m[1] = "ChannelOpenOk" ->
         IF m[2] \in DOMAIN s.channels THEN onChannelMethod(s, m[2]) ELSE s
    [] m[1] = "Start" -> onStart(s, m[2], m[3])
    [] m[1] = "Tune" -> onTune(s, m[2], m[3])
    [] m[1] = "OpenOk" -> onOpenOk(s)
    [] m[1] = "Close" -> onClose(s)
    [] m[1] = "CloseOk" -> onCloseOk(s)
    [] m[1] = "Blocked" -> onBlocked(s, m[2])
    [] m[1] = "Unblocked" -> onUnblocked(s)

\* -------------------------------------------------------------- listeners
\* Whether m is the (k+1)-th method of the handshake the server is expected
\* to drive: Connection.Start (0-9), Connection.Tune, Connection.OpenOk.
expected(k, m) ==
  CASE k = 0 -> m = <<"Start", 0, 9>>
    [] k = 1 -> m[1] = "Tune"
    [] k = 2 -> m = <<"OpenOk">>
    [] OTHER -> FALSE

\* Observation only: while clean, hs counts the methods of the expected
\* server sequence dispatched on this transport; any other method clears
\* clean.
observe(s, m) ==
  LET ok == s.hist.clean /\ expected(s.hist.hs, m)
  IN [s EXCEPT !.hist.hs = IF ok THEN @ + 1 ELSE @,
               !.hist.clean = ok,
               !.hist.nrcvd = @ + 1]

\* The connect listener, lines 127-171.
onConnect(s) ==
  [s EXCEPT !.channels = IF DOMAIN @ = {} THEN (0 :> "none") ELSE @,
            !.parser = TRUE,
            !.readyEmitted = FALSE]

\* The 'data' listener, lines 173-183, on a chunk carrying method m.
onData(s, m) ==
  IF ~s.parser THEN inboundHeartbeatTimerReset(s)
  ELSE IF throws(m) THEN emitError(observe(s, m), "UncaughtMethod")
  ELSE inboundHeartbeatTimerReset(onMethod(observe(s, m), m))

\* parser.onError (lines 164-167) on a malformed chunk, inside the 'data'
\* listener: execute returns, so the inbound timer is reset afterwards.
onMalformed(s) ==
  IF ~s.parser THEN inboundHeartbeatTimerReset(s)
  ELSE inboundHeartbeatTimerReset(emitError(s, "FrameError"))

\* The 'end' listener, lines 283-289.
onEnd(s) ==
  IF ~s.readyEmitted THEN emitError(s, "AuthenticationFailure") ELSE s

\* parseInt(x, 10) of a number 0 <= x = d * 10^e with one digit d, line 595:
\* the leading integer of String(x).  Below 1e-6 String(x) is in exponent
\* form ("5e-7") and parseInt returns its digit d; otherwise floor(x).
parseInt(x) ==
  IF x.e < -6 THEN x.d ELSE IF x.e < 0 THEN 0 ELSE x.d

\* Lines 592-593: hostPreference, or the last index when it is not below
\* host.length.
preferred(hostPreference, length) ==
  IF hostPreference < length THEN hostPreference ELSE length - 1

\* _chooseHost, lines 588-606: the next value of this.hosti (unchanged when
\* options.host is not an array).
chooseHost(s) ==
  IF s.options.host = 0 THEN s
  ELSE IF s.hosti = <<>>
       THEN IF s.options.hostPreference # <<>>
            THEN [s EXCEPT !.hosti =
                    <<preferred(s.options.hostPreference[1], s.options.host)>>]
            ELSE [s EXCEPT !.hosti = <<parseInt(s.random)>>]
       ELSE [s EXCEPT !.hosti = <<(s.hosti[1] + 1) % s.options.host>>]

\* this.options.host[this.hosti] is a host name.
hostChosen(s) ==
  s.options.host = 0 \/ s.hosti[1] \in 0..(s.options.host - 1)

\* Lines 608-638: the new transport to the chosen host.
openSocket(s) ==
  [s EXCEPT !.sockets = Append(@, [st |-> "connecting", localEnd |-> FALSE]),
            !.hist.sent = <<>>,
            !.hist.hs = 0,
            !.hist.clean = TRUE,
            !.hist.nrcvd = 0,
            !.hist.readyCount = 0,
            !.hist.lastBlock = "none"]

\* _createSocket, lines 608-667: a new transport becomes this.socket.  With
\* no host at index hosti, URL.parse(undefined) on line 610 throws.
createSocket(s) ==
  LET s1 == chooseHost(s)
  IN IF hostChosen(s1) THEN openSocket(s1)
     ELSE [s1 EXCEPT !.hist.threw = TRUE]

\* _startHandshake, lines 725-728.
startHandshake(s) == write(s, <<"Header", 0>>)

\* connect(), lines 93-99; addAllListeners on the first call only.
connect(s) ==
  LET s1 == IF socket(s) = 0 THEN [s EXCEPT !.backoffAttached = TRUE] ELSE s
      s2 == createSocket(s1)
  IN IF s2.hist.threw THEN s2 ELSE startHandshake(s2)

\* reconnect(), lines 101-110.
reconnect(s) ==
  LET s1 == [s EXCEPT !.channels = [c \in DOMAIN @ |-> "closed"],
                      !.hist.reconnects = @ + 1]
  IN connect(socketEnd(s1, socket(s1)))

\* The callback of the reconnect timer, lines 248-253.
onReconnectTimer(s, i) ==
  reconnect([s EXCEPT !.connectionAttemptScheduled = FALSE,
                      !.timers = SubSeq(@, 1, i - 1) \o SubSeq(@, i + 1, Len(@))])

\* end(), lines 669-685.
end(s) ==
  [clearOutbound(socketEnd(s, socket(s))) EXCEPT
                                  !.options.heartbeat = 0,
                                  !.inboundTimer = FALSE,
                                  !.hist.endCalled = TRUE,
                                  !.hist.endPending = @ \/ s.timers # <<>>]

\* The callback raising the error in every case but (readable, not forced).
onInboundTimerUnlessReadable(s) ==
  LET s1 == [s EXCEPT !.inboundTimer = FALSE]
  IN IF readable(s1) /\ ~s1.options.heartbeatForceReconnect
     THEN s1
     ELSE emitError(s1, "HeartbeatTimeout")

\* The callback of the inbound heartbeat timer, lines 401-405.
onInboundTimer(s) ==
  LET s1 == [s EXCEPT !.inboundTimer = FALSE]
  IN IF readable(s1) \/ s1.options.heartbeatForceReconnect
     THEN emitError(s1, "HeartbeatTimeout")
     ELSE s1

\* The timer of the handle has fired: it is no longer pending.
fired(s) ==
  [s EXCEPT !.outboundTimer = FALSE, !.hist.outArmed = @ - 1]

\* The callback sending the heartbeat without arming the next timer.
onOutboundTimerOnce(s) == heartbeat(fired(s))

\* The callback of the outbound heartbeat timer, lines 416-419.
onOutboundTimer(s) == outboundHeartbeatTimerReset(heartbeat(fired(s)))

\* The callback of socket.setTimeout, lines 642-648, for transport i.
onSocketTimeout(s, i) == emitError(socketDestroy(s, i), "TimeoutError")

\* _sendHeader, lines 785-834: one content header frame carrying the body
\* size.
sendHeader(s, channel, size) == write(s, <<"ContentHeader", channel, size>>)

\* The loop of _sendBody taking the whole body as one frame.
bodySizesUnsplit(len, maxBodySize) == IF len > 0 THEN <<len>> ELSE <<>>

\* The loop of _sendBody, lines 750-764: the bodySize of each iteration.
RECURSIVE bodySizes(_, _)
bodySizes(len, maxBodySize) ==
  IF len > 0
  THEN LET bodySize == IF len < maxBodySize THEN len ELSE maxBodySize
       IN <<bodySize>> \o bodySizes(len - bodySize, maxBodySize)
  ELSE <<>>

\* Lines 754-761: the body frames, buffer.copy(b, b.used, pos, pos+bodySize)
\* for each bodySize in turn.
RECURSIVE writeBodies(_, _, _, _, _)
writeBodies(s, channel, buffer, pos, sizes) ==
  IF sizes = <<>> THEN s
  ELSE writeBodies(
         write(s, <<"Body", channel, SubSeq(buffer, pos + 1, pos + sizes[1])>>),
         channel, buffer, pos + sizes[1], Tail(sizes))

\* Whether the loop of lines 750-764 is still running after `left` more
\* iterations.  An iteration with bodySize >= 1 shortens len by at least one,
\* so a loop that outlives len iterations has met a bodySize <= 0, which is
\* then maxBodySize in every later iteration as well: len never reaches 0.
RECURSIVE loops(_, _, _)
loops(len, maxBodySize, left) ==
  IF len > 0
  THEN LET bodySize == IF len < maxBodySize THEN len ELSE maxBodySize
       IN left = 0 \/ loops(len - bodySize, maxBodySize, left - 1)
  ELSE FALSE

\* _sendBody, lines 736-766, for a body already a buffer; a loop that does
\* not end never returns to the caller.
sendBody(s, channel, buffer) ==
  LET s1 == sendHeader(s, channel, Len(buffer))
      maxBodySize == s.maxFrameBuffer - metaSize
  IN IF loops(Len(buffer), maxBodySize, Len(buffer))
     THEN [s1 EXCEPT !.hist.hung = TRUE]
     ELSE writeBodies(s1, channel, buffer, 0,
                      bodySizes(Len(buffer), maxBodySize))

\* A queue's subscribe(): a consumer entry, open.
subscribe(s, q) == [s EXCEPT !.consumers[q] = "open"]

\* A handler that closes releases its slot in this.channels.
release(s, ch) ==
  [s EXCEPT !.channels = [c \in DOMAIN @ \ {ch} |-> @[c]],
            !.consumers = [q \in DOMAIN @ \ {ch} |-> @[q]],
            !.hist.released = TRUE]

\* ---------------------------------------------------------------- actions
Live(i) == i \in 1..Len(sockets) /\ sockets[i].st # "closed"

\* The application calls connect() on the new Connection.
Connect == Len(sockets) = 0 /\ ~hist.threw /\ Set(connect(State))

\* Transport i emits 'connect'.
SocketConnect(i) ==
  /\ Live(i) /\ sockets[i].st = "connecting"
  /\ Set(onConnect([State EXCEPT !.sockets[i].st = "open"]))

\* Transport i emits 'data' with one method.
SocketData(i, m, limit) ==
  /\ Live(i) /\ sockets[i].st = "open"
  /\ hist.nrcvd < limit
  /\ Set(onData(State, m))

\* Transport i emits 'data' with bytes the parser rejects.
SocketMalformed(i) ==
  /\ Live(i) /\ sockets[i].st = "open"
  /\ Set(onMalformed(State))

\* Transport i emits 'end' (the peer closed), then closes.
SocketEnd(i) ==
  /\ Live(i) /\ sockets[i].st = "open"
  /\ Set(onEnd([State EXCEPT !.sockets[i].st = "closed"]))

\* Transport i emits 'error', then closes.
SocketError(i) ==
  /\ Live(i)
  /\ Set(emitError([State EXCEPT !.sockets[i].st = "closed"], "TransportError"))

\* Transport i does not connect within connectionTimeout.
SocketTimeout(i) ==
  /\ Live(i) /\ sockets[i].st = "connecting"
  /\ Set(onSocketTimeout(State, i))

\* A pending reconnect timer fires.
ReconnectTimer(i, limit) ==
  /\ i \in 1..Len(timers)
  /\ Len(sockets) < limit
  /\ Set(onReconnectTimer(State, i))

InboundTimer == inboundTimer /\ Set(onInboundTimer(State))

OutboundTimer ==
  /\ outboundTimer
  /\ Len(hist.sent) < MaxSent
  /\ Set(onOutboundTimer(State))

\* An exchange publishes: _sendBody(channel, body) on a ready connection.
SendBody(channel, buffer) ==
  /\ readyEmitted /\ ~hist.hung
  /\ Len(hist.sent) < MaxSent
  /\ Set(sendBody(State, channel, buffer))

\* The application calls connection.exchange().
Exchange(limit) ==
  /\ ~hist.hung
  /\ Len(hist.returned) < limit
  /\ Set(allocate(State, FALSE))

\* The application calls connection.queue().
Queue(limit) ==
  /\ ~hist.hung
  /\ Len(hist.returned) < limit
  /\ Set(allocate(State, TRUE))

\* The application subscribes to queue q.
Subscribe(q) ==
  /\ q \in DOMAIN consumers /\ consumers[q] = "none"
  /\ Set(subscribe(State, q))

\* The handler of channel ch closes and releases its slot.
Release(ch) ==
  /\ ch \in DOMAIN channels \ {0}
  /\ Set(release(State, ch))

\* The application calls connection.end().
End == Len(sockets) > 0 /\ Set(end(State))

\* ----------------------------------------------------------- specifications
NoHistory ==
  [sent |-> <<>>, hs |-> 0, clean |-> TRUE, nrcvd |-> 0,
   readyCount |-> 0, lastError |-> "none", failures |-> 0, reconnects |-> 0,
   returned |-> <<>>, released |-> FALSE, hung |-> FALSE,
   chReconnects |-> <<>>, callbackCalls |-> 0, endCalled |-> FALSE,
   endPending |-> FALSE, outArmed |-> 0, threw |-> FALSE,
   calledAt |-> <<>>, lastBlock |-> "none"]

\* defaultOptions, lines 24-35, merged under the caller's options by
\* setOptions (line 85): one host name, no hostPreference.
defaultOptions == [host |-> 0, hostPreference |-> <<>>]

\* The Connection constructor, lines 61-77, and the module variables.
Constructed(opts, impl) ==
  [options |-> opts @@ defaultOptions, implOptions |-> impl,
   sockets |-> <<>>,
   channels |-> <<>>, consumers |-> <<>>, channelCounter |-> 0,
   channelMax |-> defaultChannelMax,
   maxFrameBuffer |-> defaultMaxFrameBuffer,
   sendBuffer |-> defaultMaxFrameBuffer,
   parser |-> FALSE, readyEmitted |-> FALSE,
   connectionAttemptScheduled |-> FALSE, backoffTime |-> null,
   backoffAttached |-> FALSE, timers |-> <<>>, inboundTimer |-> FALSE,
   outboundTimer |-> FALSE, readyCallback |-> TRUE,
   serverProperties |-> FALSE, hosti |-> <<>>,
   random |-> [d |-> 0, e |-> 0],
   blocked |-> FALSE, blockedReason |-> null, hist |-> NoHistory]

\* The state is s.
Is(s) ==
  /\ options = s.options
  /\ implOptions = s.implOptions
  /\ sockets = s.sockets
  /\ channels = s.channels
  /\ consumers = s.consumers
  /\ channelCounter = s.channelCounter
  /\ channelMax = s.channelMax
  /\ maxFrameBuffer = s.maxFrameBuffer
  /\ sendBuffer = s.sendBuffer
  /\ parser = s.parser
  /\ readyEmitted = s.readyEmitted
  /\ connectionAttemptScheduled = s.connectionAttemptScheduled
  /\ backoffTime = s.backoffTime
  /\ backoffAttached = s.backoffAttached
  /\ timers = s.timers
  /\ inboundTimer = s.inboundTimer
  /\ outboundTimer = s.outboundTimer
  /\ readyCallback = s.readyCallback
  /\ serverProperties = s.serverProperties
  /\ hosti = s.hosti
  /\ random = s.random
  /\ blocked = s.blocked
  /\ blockedReason = s.blockedReason
  /\ hist = s.hist

\* The configurations explored: implOptions and options of the constructor.
ImplOptions(reconnects, strategies) ==
  [reconnect : reconnects, reconnectBackoffStrategy : strategies,
   reconnectBackoffTime : {1}, reconnectExponentialLimit : {3}]

Options(heartbeats) ==
  [heartbeat : heartbeats, heartbeatForceReconnect : {FALSE}]

\* --- Reconnection: failures, backoff, ready, end().
Methods ==
  {<<"Start", 0, 9>>, <<"Tune", 0, 0>>, <<"OpenOk">>, <<"ChannelOpenOk", 1>>}

Init ==
  \E opts \in Options({0}),
     impl \in ImplOptions(BOOLEAN, {"linear", "exponential"}) :
    Is(Constructed(opts, impl))

Next ==
  \/ Connect
  \/ \E i \in 1..MaxSockets : SocketConnect(i)
  \/ \E i \in 1..MaxSockets, m \in Methods : SocketData(i, m, MaxRcvd)
  \/ \E i \in 1..MaxSockets : SocketEnd(i)
  \/ \E i \in 1..MaxSockets : SocketError(i)
  \/ \E i \in 1..2 : ReconnectTimer(i, MaxSockets)
  \/ Queue(1)
  \/ Subscribe(1)
  \/ End

Spec == Init /\ [][Next]_vars

\* --- The handshake on one transport and its successor.
Versions == {<<0, 9>>, <<0, 8>>, <<1, 9>>, <<1, 0>>}
HsMethods ==
  {<<"Start", v[1], v[2]>> : v \in Versions}
    \cup {<<"Tune", 4096, 2>>, <<"OpenOk">>, <<"Close">>, <<"CloseOk">>,
          <<"Other">>}

InitHs ==
  \E opts \in Options({1}), impl \in ImplOptions({TRUE}, {"linear"}) :
    Is(Constructed(opts, impl))

NextHs ==
  \/ Connect
  \/ \E i \in 1..HsSockets : SocketConnect(i)
  \/ \E i \in 1..HsSockets, m \in HsMethods : SocketData(i, m, HsRcvd)
  \/ \E i \in 1..HsSockets : SocketMalformed(i)
  \/ \E i \in 1..HsSockets : SocketEnd(i)
  \/ \E i \in 1..HsSockets : SocketError(i)
  \/ \E i \in 1..HsSockets : SocketTimeout(i)
  \/ \E i \in 1..2 : ReconnectTimer(i, HsSockets)
  \/ InboundTimer
  \/ OutboundTimer

SpecHs == InitHs /\ [][NextHs]_vars

\* --- Heartbeats: both timers, with heartbeatForceReconnect either way.
OptionsHb == [heartbeat : {1}, heartbeatForceReconnect : BOOLEAN]

HbMethods == {<<"Start", 0, 9>>, <<"Tune", 0, 0>>, <<"OpenOk">>, <<"Other">>}

InitHb ==
  \E opts \in OptionsHb, impl \in ImplOptions({TRUE}, {"linear"}) :
    Is(Constructed(opts, impl))

NextHb ==
  \/ Connect
  \/ \E i \in 1..HbSockets : SocketConnect(i)
  \/ \E i \in 1..HbSockets, m \in HbMethods : SocketData(i, m, HbRcvd)
  \/ \E i \in 1..HbSockets : SocketMalformed(i)
  \/ \E i \in 1..HbSockets : SocketEnd(i)
  \/ \E i \in 1..HbSockets : SocketError(i)
  \/ \E i \in 1..2 : ReconnectTimer(i, HbSockets)
  \/ InboundTimer
  \/ OutboundTimer
  \/ End

SpecHb == InitHb /\ [][NextHb]_vars

\* --- Outbound heartbeats on one transport.  A timer that is due fires: the
\* callback of setTimeout runs once its delay has elapsed.
BeatMethods == {<<"Start", 0, 9>>, <<"Tune", 0, 0>>, <<"OpenOk">>}

InitBeat ==
  \E opts \in Options({1}), impl \in ImplOptions({TRUE}, {"linear"}) :
    Is(Constructed(opts, impl))

NextBeat ==
  \/ Connect
  \/ SocketConnect(1)
  \/ \E m \in BeatMethods : SocketData(1, m, BeatRcvd)
  \/ SocketEnd(1)
  \/ SocketError(1)
  \/ OutboundTimer
  \/ End

SpecBeat == InitBeat /\ [][NextBeat]_vars /\ WF_vars(OutboundTimer)

\* --- Channel allocation on a ready connection whose handshake negotiated
\* channelMax = n.
Negotiated(n) ==
  LET c == Constructed([heartbeat |-> 0, heartbeatForceReconnect |-> FALSE],
                       [reconnect |-> TRUE,
                        reconnectBackoffStrategy |-> "linear",
                        reconnectBackoffTime |-> 1,
                        reconnectExponentialLimit |-> 3])
      s1 == onConnect([connect(c) EXCEPT !.sockets[1].st = "open"])
      s2 == onData(s1, <<"Start", 0, 9>>)
      s3 == onData(s2, <<"Tune", 0, n>>)
  IN onData(s3, <<"OpenOk">>)

InitAlloc == \E n \in 1..MaxChannelMax : Is(Negotiated(n))

\* --- Host selection: options.host an array of 1..MaxHosts names.
\* Math.random() * length is below length: d * 10^0 with d < length, or a
\* smaller number d * 10^e with e < 0.
Randoms(length) ==
  [d : 0..(length - 1), e : {0}] \cup [d : 1..9, e : {-1, -7}]

HostOptions ==
  {[heartbeat |-> 0, heartbeatForceReconnect |-> FALSE,
    host |-> n, hostPreference |-> p] :
     n \in 1..MaxHosts,
     p \in {<<>>} \cup {<<k>> : k \in -1..(MaxHosts + 1)}}

InitHost ==
  \E opts \in HostOptions, impl \in ImplOptions({TRUE}, {"linear"}) :
    \E r \in IF opts.hostPreference = <<>> THEN Randoms(opts.host)
              ELSE {[d |-> 0, e |-> 0]} :
      Is([Constructed(opts, impl) EXCEPT !.random = r])

NextHost ==
  \/ Connect
  \/ \E i \in 1..HostSockets : SocketConnect(i)
  \/ \E i \in 1..HostSockets : SocketError(i)
  \/ ReconnectTimer(1, HostSockets)

SpecHost == InitHost /\ [][NextHost]_vars

\* --- Negotiation: Connection.Tune with any frameMax and channelMax, on a
\* connection and on its successor, and queues declared once ready.
TuneMethods ==
  {<<"Tune", f, c>> : f \in {0, metaSize - 1, metaSize, MaxFrame},
                      c \in 0..MaxChannelMax}
    \cup {<<"OpenOk">>}

\* The application declares its queues from its 'ready' listener.
QueueOnReady(limit) == readyEmitted /\ Queue(limit)

InitTune ==
  \E opts \in Options({0}), impl \in ImplOptions({TRUE}, {"linear"}) :
    Is(Constructed(opts, impl))

NextTune ==
  \/ Connect
  \/ \E i \in 1..TuneSockets : SocketConnect(i)
  \/ \E i \in 1..TuneSockets, m \in TuneMethods : SocketData(i, m, TuneRcvd)
  \/ \E i \in 1..TuneSockets : SocketError(i)
  \/ ReconnectTimer(1, TuneSockets)
  \/ QueueOnReady(TuneAllocs)

SpecTune == InitTune /\ [][NextTune]_vars

\* --- Publishing on a ready connection whose handshake negotiated
\* frameMax = f.
Tuned(f) ==
  LET c == Constructed([heartbeat |-> 0, heartbeatForceReconnect |-> FALSE],
                       [reconnect |-> TRUE,
                        reconnectBackoffStrategy |-> "linear",
                        reconnectBackoffTime |-> 1,
                        reconnectExponentialLimit |-> 3])
      s1 == onConnect([connect(c) EXCEPT !.sockets[1].st = "open"])
      s2 == onData(s1, <<"Start", 0, 9>>)
      s3 == onData(s2, <<"Tune", f, 0>>)
  IN onData(s3, <<"OpenOk">>)

RECURSIVE Buffers(_)
Buffers(n) ==
  IF n = 0 THEN {<<>>}
  ELSE Buffers(n - 1)
         \cup {Append(b, x) : b \in {c \in Buffers(n - 1) : Len(c) = n - 1},
                              x \in {0, 1}}

InitBody == \E f \in (metaSize + 1)..MaxFrame : Is(Tuned(f))

NextBody == \E channel \in 1..2, buffer \in Buffers(MaxBody) :
              SendBody(channel, buffer)

SpecBody == InitBody /\ [][NextBody]_vars

\* --- Flow control: Connection.Blocked and Connection.Unblocked on a
\* transport and on its successor.
BlockMethods == {<<"OpenOk">>, <<"Blocked", 1>>, <<"Unblocked">>}

InitBlock ==
  \E opts \in Options({0}), impl \in ImplOptions({TRUE}, {"linear"}) :
    Is(Constructed(opts, impl))

NextBlock ==
  \/ Connect
  \/ \E i \in 1..BlockSockets : SocketConnect(i)
  \/ \E i \in 1..BlockSockets, m \in BlockMethods :
       SocketData(i, m, BlockRcvd)
  \/ \E i \in 1..BlockSockets : SocketError(i)
  \/ ReconnectTimer(1, BlockSockets)

SpecBlock == InitBlock /\ [][NextBlock]_vars

\* --- Publishing when the handshake negotiated the smallest frameMax that
\* leaves every frame size of _sendBody non-negative, or one above it.
InitSend == \E f \in metaSize..MaxFrame : Is(Tuned(f))

NextSend == \E channel \in 1..2, buffer \in Buffers(MaxBody) :
              SendBody(channel, buffer)

SpecSend == InitSend /\ [][NextSend]_vars

NextAlloc ==
  \/ Exchange(MaxAllocs)
  \/ Queue(MaxAllocs)
  \/ \E ch \in 1..MaxChannelMax : Release(ch)

SpecAlloc == InitAlloc /\ [][NextAlloc]_vars

\* ------------------------------------------------------------------ claims
\* An exchange() or queue() call has just returned or failed.
Allocated == Len(hist'.returned) = Len(hist.returned) + 1
Last(seq) == seq[Len(seq)]
Free(chans, cmax) == (1..cmax) \ DOMAIN chans

\* C1: in a run of allocations with no release, each of the first channelMax
\* calls returns an id in 1..channelMax (never 0, never a failure), distinct
\* from every id returned before it, and registers it in channels.
C1_DistinctIdsInRange ==
  ~hist.released =>
    \A i \in 1..Len(hist.returned) :
      i <= channelMax =>
        /\ hist.returned[i] \in 1..channelMax
        /\ hist.returned[i] \in DOMAIN channels
        /\ \A j \in 1..(i - 1) : hist.returned[j] # hist.returned[i]

\* channelMax allocations have been made with no release, for the largest
\* channelMax explored.
C1_Witness ==
  /\ ~hist.released
  /\ channelMax = MaxChannelMax
  /\ Len(hist.returned) = channelMax
  /\ DOMAIN channels = 0..channelMax

\* C2: an allocation made while every id in 1..channelMax is occupied fails
\* with NoChannelsAvailable, leaves channelCounter as it was and registers
\* no handler (the ids in channels are the same).
C2_ExhaustedFails ==
  [][(Allocated /\ Free(channels, channelMax) = {}) =>
       /\ Last(hist'.returned) = 0
       /\ hist'.lastError = "NoChannelsAvailable"
       /\ channelCounter' = channelCounter
       /\ DOMAIN channels' = DOMAIN channels]_vars

\* The allocation after channelMax allocations and no release has failed.
C2_Witness ==
  /\ ~hist.released
  /\ Len(hist.returned) = channelMax + 1
  /\ Last(hist.returned) = 0
  /\ hist.lastError = "NoChannelsAvailable"
  /\ channelCounter = channelMax

\* The j-th id of the cyclic scan that starts after counter.
Candidate(counter, cmax, j) == ((counter + j) % cmax) + 1

\* The first free id of that scan.
FirstFree(counter, chans, cmax) ==
  LET j == CHOOSE k \in 0..(cmax - 1) :
             /\ Candidate(counter, cmax, k) \notin DOMAIN chans
             /\ \A l \in 0..(k - 1) : Candidate(counter, cmax, l) \in DOMAIN chans
  IN Candidate(counter, cmax, j)

\* C3: an allocation made while some id in 1..channelMax is free returns the
\* first free id of the cyclic scan from channelCounter % channelMax + 1,
\* registers it and sets channelCounter to it; when exactly one id k is free
\* (one release after exhaustion) it returns k.
C3_FirstFreeCyclic ==
  [][(Allocated /\ Free(channels, channelMax) # {}) =>
       /\ Last(hist'.returned) =
            FirstFree(channelCounter, channels, channelMax)
       /\ channelCounter' = Last(hist'.returned)
       /\ DOMAIN channels' = DOMAIN channels \cup {Last(hist'.returned)}
       /\ \A k \in 1..channelMax :
            Free(channels, channelMax) = {k} => Last(hist'.returned) = k]_vars

\* Scenario 4 of the specification: channelMax = 3, ids 1..3 occupied, the
\* allocation fails, channel 2 is released, the next allocation returns 2.
C3_Witness ==
  /\ channelMax = 3
  /\ hist.returned = <<1, 2, 3, 0, 2>>
  /\ channelCounter = 2
  /\ hist.released

\* The names of the handshake frames written on the current transport, in
\* order: the protocol header and the channel-0 methods, heartbeats left out.
HandshakeFrames ==
  LET hs == SelectSeq(hist.sent, LAMBDA f : f[2] = 0 /\ f[1] # "Heartbeat")
  IN [i \in 1..Len(hs) |-> hs[i][1]]

\* What the client has written once the server has sent k of Start, Tune,
\* OpenOk.
Replies(k) ==
  CASE k = 0 -> <<"Header">>
    [] k = 1 -> <<"Header", "StartOk">>
    [] OTHER -> <<"Header", "StartOk", "TuneOk", "Open">>

\* C4: on every transport, while the server has sent exactly the first k of
\* Connection.Start (0-9), Connection.Tune, Connection.OpenOk, the client has
\* written the protocol header and exactly the replies to those k methods,
\* each once and in order, and ready has been emitted once if k = 3 and not
\* at all before.
C4_HandshakeOrder ==
  (Len(sockets) > 0 /\ hist.clean) =>
    /\ HandshakeFrames = Replies(hist.hs)
    /\ hist.readyCount = IF hist.hs = 3 THEN 1 ELSE 0

\* A complete handshake on the transport created by a reconnect, with a
\* heartbeat written among the handshake frames.
C4_Witness ==
  /\ Len(sockets) = 2
  /\ hist.clean /\ hist.hs = 3
  /\ hist.readyCount = 1 /\ readyEmitted
  /\ \E i \in 1..Len(hist.sent) : hist.sent[i][1] = "Heartbeat"

\* C5: a Connection.Start dispatched with a version other than (0, 9) ends
\* the transport, raises BadServerVersion and sends nothing; with version
\* (0, 9) it stores serverProperties and sends StartOk.
C5_VersionChecked ==
  [][\A i \in 1..HsSockets, v \in Versions :
       (parser /\ SocketData(i, <<"Start", v[1], v[2]>>, HsRcvd)) =>
         IF v = <<0, 9>>
         THEN /\ serverProperties'
              /\ hist'.sent = Append(hist.sent, <<"StartOk", 0>>)
         ELSE /\ sockets'[Len(sockets)].localEnd
              /\ hist'.lastError = "BadServerVersion"
              /\ hist'.sent = hist.sent]_vars

\* A reconnect timer has just been scheduled.
Scheduled == Len(timers') = Len(timers) + 1

\* The delay the claim gives the k-th consecutive failure since the last
\* ready.
RECURSIVE ClaimedDelay(_, _)
ClaimedDelay(k, io) ==
  IF k = 1 \/ io.reconnectBackoffStrategy # "exponential"
  THEN io.reconnectBackoffTime
  ELSE LET d == 2 * ClaimedDelay(k - 1, io)
       IN IF d < io.reconnectExponentialLimit
          THEN d ELSE io.reconnectExponentialLimit

\* The delays the listener computes for k failures in a row, from null.
RECURSIVE Delays(_, _, _)
Delays(k, b, io) ==
  IF k = 0 THEN <<>>
  ELSE <<nextBackoffTime(b, io)>> \o Delays(k - 1, nextBackoffTime(b, io), io)

Example(strategy) ==
  [reconnect |-> TRUE, reconnectBackoffStrategy |-> strategy,
   reconnectBackoffTime |-> 1000, reconnectExponentialLimit |-> 10000]

\* C6: the timer scheduled for the k-th handled failure since the last ready
\* (or since connect()) has delay reconnectBackoffTime if k = 1 or the strategy
\* is linear, and min(2 * previous delay, reconnectExponentialLimit) for k > 1
\* with strategy exponential; for base 1000 and limit 10000 the delays are
\* 1000, 2000, 4000, 8000, 10000, 10000.
C6_BackoffSeries ==
  [][/\ Scheduled =>
          /\ hist'.failures >= 1
          /\ Last(timers') = ClaimedDelay(hist'.failures, implOptions)
     /\ hist'.readyCount = hist.readyCount + 1 =>
          /\ hist'.failures = 0
          /\ backoffTime' = null
     /\ Delays(6, null, Example("exponential"))
          = <<1000, 2000, 4000, 8000, 10000, 10000>>
     /\ Delays(3, null, Example("linear")) = <<1000, 1000, 1000>>]_vars

\* The third failure in a row with strategy exponential: the doubled delay 4
\* is cut to the limit 3.
C6_Witness ==
  /\ implOptions.reconnectBackoffStrategy = "exponential"
  /\ hist.failures = 3
  /\ timers = <<3>>

\* An 'error' is emitted to the listener backoff in this step.
ErrorEmitted ==
  \E i \in 1..MaxSockets : SocketError(i) \/ (~readyEmitted /\ SocketEnd(i))

\* C7: at most one reconnect timer is pending, and only while
\* connectionAttemptScheduled is true; an error emitted while the flag is
\* true schedules nothing and leaves backoffTime and the flag as they are; the
\* flag is cleared only by the timer's callback, which then calls reconnect().
C7_OneAttemptPending ==
  /\ [](/\ Len(timers) <= 1
        /\ Len(timers) = 1 => connectionAttemptScheduled
        /\ (connectionAttemptScheduled /\ implOptions.reconnect)
             => Len(timers) = 1)
  /\ [][/\ (connectionAttemptScheduled /\ ErrorEmitted) =>
             /\ timers' = timers
             /\ backoffTime' = backoffTime
             /\ connectionAttemptScheduled'
        /\ (connectionAttemptScheduled /\ ~connectionAttemptScheduled') =>
             /\ Len(timers) = 1 /\ timers' = <<>>
             /\ hist'.reconnects = hist.reconnects + 1
             /\ Len(sockets') = Len(sockets) + 1]_vars

\* A second error has arrived while the attempt for the first is pending.
C7_Witness ==
  /\ connectionAttemptScheduled
  /\ Len(timers) = 1
  /\ \E i, j \in 1..Len(sockets) :
       i # j /\ sockets[i].st = "closed" /\ sockets[j].st = "closed"
  /\ hist.lastError = "TransportError"

\* C8: with implOptions.reconnect false no reconnect timer is ever pending,
\* reconnect() is never called and no second transport is created; the first
\* handled error ends the transport, marks every non-zero channel closed and
\* detaches the listener, and connectionAttemptScheduled stays true for good.
C8_NoReconnectWhenDisabled ==
  /\ [](~implOptions.reconnect =>
          /\ timers = <<>>
          /\ hist.reconnects = 0
          /\ Len(sockets) <= 1
          /\ connectionAttemptScheduled =>
               (~backoffAttached /\ sockets[1].localEnd))
  /\ [][~implOptions.reconnect =>
          /\ (~connectionAttemptScheduled /\ connectionAttemptScheduled') =>
               /\ sockets'[1].localEnd
               /\ ~parser'
               /\ ~backoffAttached'
               /\ \A c \in DOMAIN channels' \ {0} : channels'[c] = "closed"
          /\ connectionAttemptScheduled => connectionAttemptScheduled']_vars

\* Reconnection disabled: the error has been handled with a queue registered,
\* and a later error has changed nothing.
C8_Witness ==
  /\ ~implOptions.reconnect
  /\ connectionAttemptScheduled
  /\ ~backoffAttached
  /\ 1 \in DOMAIN channels /\ channels[1] = "closed"
  /\ sockets[1].st = "closed"
  /\ hist.lastError = "TransportError"

\* How many times frame f occurs in seq.
Count(seq, f) == Cardinality({i \in 1..Len(seq) : seq[i] = f})

\* C9: with reconnect enabled, each ready invokes reconnect() exactly once on
\* every non-zero channel registered in channels (one Channel.Open is sent
\* for it) and never on channel 0.
C9_ChannelsReconnected ==
  [][(implOptions.reconnect /\ hist'.readyCount = hist.readyCount + 1) =>
       /\ DOMAIN hist'.chReconnects = DOMAIN channels
       /\ \A c \in DOMAIN channels :
            /\ hist'.chReconnects[c] = IF c = 0 THEN 0 ELSE 1
            /\ Count(hist'.sent, <<"ChannelOpen", c>>) =
                 Count(hist.sent, <<"ChannelOpen", c>>) + (IF c = 0 THEN 0 ELSE 1)
     ]_vars

\* After a failure and a reconnect, ready has been emitted on the new
\* transport, the queue's reconnect() has been invoked once, and the server's
\* Channel.OpenOk has re-opened the queue and its consumer.
C9_Witness ==
  /\ implOptions.reconnect
  /\ hist.reconnects >= 1 /\ Len(sockets) >= 2
  /\ readyEmitted /\ hist.readyCount = 1
  /\ 1 \in DOMAIN hist.chReconnects /\ hist.chReconnects[1] = 1
  /\ channels[1] = "open"
  /\ consumers[1] = "open"

\* C10: once end() has been called while a reconnect timer was pending,
\* reconnect() is not invoked and no new transport is created.
C10_EndSupersedesReconnect ==
  [][hist.endPending =>
       /\ hist'.reconnects = hist.reconnects
       /\ Len(sockets') = Len(sockets)]_vars

\* The inbound timer's callback has raised HeartbeatTimeout: the error is
\* recorded, both heartbeat timers are cleared and, unless an attempt is
\* already pending, the teardown has run.
TimeoutRaised ==
  /\ hist'.lastError = "HeartbeatTimeout"
  /\ ~inboundTimer' /\ ~outboundTimer'
  /\ connectionAttemptScheduled'
  /\ ~connectionAttemptScheduled =>
       (~parser' /\ hist'.failures = hist.failures + 1)

\* The inbound timer's callback has done nothing but consume the timer.
TimeoutIgnored ==
  /\ ~inboundTimer'
  /\ UNCHANGED <<options, implOptions, sockets, channels, consumers,
                 channelCounter, channelMax, maxFrameBuffer, sendBuffer,
                 parser, readyEmitted, connectionAttemptScheduled,
                 backoffTime, backoffAttached, timers, outboundTimer,
                 readyCallback, serverProperties, hosti, random, hist>>

Up ==
  /\ options.heartbeat # 0
  /\ readyEmitted /\ hist.failures = 0 /\ ~hist.endCalled
  /\ writable(State)

\* The HEARTBEAT frames written on the current transport.
Beats == Count(hist.sent, <<"Heartbeat", 0>>)

\* A method frame has been written in this step.
MethodSent ==
  /\ Len(hist'.sent) > Len(hist.sent)
  /\ Last(hist'.sent)[1] \notin {"Heartbeat", "Header"}

Ceil(a, b) == (a + b - 1) \div b

RECURSIVE Concat(_)
Concat(seqs) == IF seqs = <<>> THEN <<>> ELSE seqs[1] \o Concat(Tail(seqs))

\* What one _sendBody(channel, buffer) call on frameMax F has written: the
\* frames new after those written before.
BodyFramed(before, after, channel, buffer, F) ==
  LET L == Len(buffer)
      n == Len(after) - Len(before)
      new == [k \in 1..n |-> after[Len(before) + k]]
      payloads == [k \in 1..(n - 1) |-> new[k + 1][3]]
  IN /\ SubSeq(after, 1, Len(before)) = before
     /\ n = 1 + Ceil(L, F - 8)
     /\ new[1] = <<"ContentHeader", channel, L>>
     /\ \A k \in 2..n :
          /\ new[k][1] = "Body" /\ new[k][2] = channel
          /\ Len(new[k][3]) <= F - 8
          /\ Len(new[k][3]) + 8 <= F
          /\ k < n => Len(new[k][3]) = F - 8
     /\ Concat(payloads) = buffer

\* C13: for a body of L bytes and negotiated frameMax F > 8, _sendBody writes
\* one content header frame with bodySize L, then ceil(L / (F - 8)) body
\* frames on the same channel and nothing else, each payload at most F - 8
\* bytes (frame at most F), each but the last exactly F - 8, and the payloads
\* in order make up the body; 300000 bytes at frameMax 131072 go out as
\* 131064, 131064 and 37872 bytes.
C13_BodyChunking ==
  [][/\ \A channel \in 1..2, buffer \in Buffers(MaxBody) :
          SendBody(channel, buffer) =>
            BodyFramed(hist.sent, hist'.sent, channel, buffer, maxFrameBuffer)
     /\ bodySizes(300000, defaultMaxFrameBuffer - metaSize)
          = <<131064, 131064, 37872>>]_vars

\* A body of 5 bytes has gone out at frameMax 10 as header, 2, 2 and 1 bytes.
C13_Witness ==
  /\ maxFrameBuffer = 10
  /\ Len(hist.sent) = 8
  /\ hist.sent[5] = <<"ContentHeader", 2, 5>>
  /\ hist.sent[6] = <<"Body", 2, <<1, 0>>>>
  /\ hist.sent[7] = <<"Body", 2, <<0, 1>>>>
  /\ hist.sent[8] = <<"Body", 2, <<1>>>>

\* C14: when host is an array, hosti is always an index 0..len(host)-1; the
\* first connect sets it to hostPreference clamped to the last index, or to
\* some valid index when hostPreference is absent; every later connect or
\* reconnect advances it to (hosti + 1) mod len(host).
C14_HostIndexValid ==
  /\ []((options.host # 0 /\ hosti # <<>>) =>
          hosti[1] \in 0..(options.host - 1))
  /\ [][(options.host # 0 /\ hosti' # hosti) =>
          IF hosti = <<>>
          THEN options.hostPreference # <<>> =>
                 hosti'[1] = IF options.hostPreference[1] < options.host
                             THEN options.hostPreference[1]
                             ELSE options.host - 1
          ELSE hosti'[1] = (hosti[1] + 1) % options.host]_vars

\* Connection.OpenOk is dispatched in this step: ready is emitted.
ReadyStep == hist'.readyCount = hist.readyCount + 1

\* C15: the ready callback is invoked at most once over all handshakes and
\* reconnects: by the first Connection.OpenOk dispatched, before that
\* handshake's ready event; every later OpenOk emits ready without invoking
\* it.
C15_ReadyCallbackOnce ==
  /\ [](/\ hist.callbackCalls <= 1
        /\ hist.callbackCalls = Len(hist.calledAt)
        /\ readyCallback <=> hist.callbackCalls = 0
        /\ \A k \in 1..Len(hist.calledAt) : hist.calledAt[k] = 0
        /\ readyCallback => (~readyEmitted /\ hist.readyCount = 0))
  /\ [][/\ ReadyStep =>
             /\ readyEmitted'
             /\ hist'.callbackCalls =
                  hist.callbackCalls + (IF readyCallback THEN 1 ELSE 0)
        /\ hist'.callbackCalls # hist.callbackCalls =>
             (ReadyStep /\ hist.callbackCalls = 0)]_vars

\* A second Connection.OpenOk has emitted ready again, and the callback has
\* still run once, before the first ready.
C15_Witness ==
  /\ hist.readyCount = 2 /\ readyEmitted
  /\ hist.calledAt = <<0>>
  /\ hist.callbackCalls = 1 /\ ~readyCallback

\* The errors the specification calls permanent.
Permanent == {"BadServerVersion", "AuthenticationFailure"}

\* C16: the step in which a permanent error (BadServerVersion, or the
\* AuthenticationFailure raised on a transport end before ready) is handled
\* schedules no reconnection attempt, even with implOptions.reconnect true.
C16_PermanentErrorsTerminate ==
  [][(hist'.failures = hist.failures + 1 /\ hist'.lastError \in Permanent)
       => timers' = timers]_vars

\* An error is handled with no attempt pending: the teardown runs.
TeardownStep == hist'.failures = hist.failures + 1

\* What the teardown does to the channels and the consumers.
TornDown ==
  /\ DOMAIN channels' = DOMAIN channels
  /\ \A c \in DOMAIN channels :
       channels'[c] = IF c = 0 THEN channels[c] ELSE "closed"
  /\ DOMAIN consumers' = DOMAIN consumers
  /\ \A q \in DOMAIN consumers :
       consumers'[q] = IF consumers[q] = "none" THEN "none" ELSE "closed"

\* C17: the teardown marks every non-zero channel and every consumer entry
\* closed and leaves channel 0 and the set of registered channels as they
\* are; from then until the next ready no channel it closed is in state open
\* again.
C17_TeardownClosesChannels ==
  [][/\ TeardownStep => TornDown
     /\ hist.failures > 0 =>
          \A c \in (DOMAIN channels \cap DOMAIN channels') \ {0} :
            channels[c] = "closed" => channels'[c] # "open"]_vars

\* C18 (as the code has it): readyEmitted becomes true exactly when ready is
\* emitted and false exactly when a transport emits 'connect'; an error
\* leaves it as it is, so after a ready followed by an error it is still
\* true until the next transport connects.
C18_ReadyEmittedUntilConnect ==
  [][/\ ReadyStep => readyEmitted'
     /\ (~readyEmitted /\ readyEmitted') => ReadyStep
     /\ \A i \in 1..MaxSockets : SocketConnect(i) => ~readyEmitted'
     /\ (readyEmitted /\ ~readyEmitted') =>
          \E i \in 1..MaxSockets : SocketConnect(i)
     /\ ErrorEmitted => readyEmitted' = readyEmitted]_vars

\* An error has been handled after the last ready, a reconnect is pending,
\* and readyEmitted is still true.
C18_Witness ==
  /\ readyEmitted
  /\ hist.failures = 1 /\ hist.lastError = "TransportError"
  /\ connectionAttemptScheduled /\ timers # <<>>

\* C18 as stated: readyEmitted is true after ready and false as soon as an
\* error has occurred.
C18_AsStated ==
  [][/\ ReadyStep => readyEmitted'
     /\ ErrorEmitted => ~readyEmitted']_vars

\* C19: once the channels map exists, entry 0 is registered, every non-zero
\* channel id registered is at most the negotiated channelMax and there are
\* at most channelMax of them, also after a reconnect whose Connection.Tune
\* negotiates a smaller channelMax.
C19_ChannelsWithinMax ==
  channels # <<>> =>
    /\ 0 \in DOMAIN channels
    /\ \A c \in DOMAIN channels \ {0} : c <= channelMax
    /\ Cardinality(DOMAIN channels \ {0}) <= channelMax

\* C20: in every state the negotiated frame limit is at least 8 and the send
\* buffer has exactly that size, and the TuneOk answering a Connection.Tune
\* carries the stored frame limit and channelMax, whatever frameMax and
\* channelMax the broker proposed.
TuneStep ==
  \E i \in 1..TuneSockets, m \in TuneMethods :
    m[1] = "Tune" /\ SocketData(i, m, TuneRcvd)

TuneOkEchoes ==
  \E k \in 1..Len(hist'.sent) :
    hist'.sent[k] = <<"TuneOk", 0, channelMax', maxFrameBuffer'>>

C20_FrameMaxAtLeast8 ==
  /\ [](maxFrameBuffer >= metaSize /\ sendBuffer = maxFrameBuffer)
  /\ [][TuneStep => TuneOkEchoes]_vars

\* A transport that reconnect() has replaced delivers 'end' or 'error'.
SupersededEvent ==
  \E i \in 1..(Len(sockets) - 1) : SocketEnd(i) \/ SocketError(i)

\* C21: an 'end' or 'error' delivered by a superseded transport after the new
\* transport was created raises no failure against the new connection, does
\* not end the new transport and schedules no further reconnection attempt.
C21_SupersededEventsIgnored ==
  [][SupersededEvent =>
       /\ hist'.failures = hist.failures
       /\ sockets'[Len(sockets)] = sockets[Len(sockets)]
       /\ timers' = timers]_vars

\* C22: every call of generateChannelId, made by exchange() or queue(),
\* returns an id or throws, also when channelCounter exceeds a channelMax that
\* a later Connection.Tune lowered: no call scans for ever.
C22_GenerateChannelIdTerminates == ~hist.hung

\* C23: every call of _sendBody returns after finitely many body frames,
\* whatever body it is given and whatever frameMax Connection.Tune stored,
\* frameMax = 8 included.
C23_SendBodyTerminates ==
  [][(\E channel \in 1..2, buffer \in Buffers(MaxBody) :
        SendBody(channel, buffer)) => ~hist'.hung]_vars

\* C24: while a reconnection attempt is pending (from the error that
\* scheduled it until the timer's callback calls reconnect()) neither the
\* inbound nor the outbound heartbeat timer is armed.
C24_NoHeartbeatTimerWhilePending ==
  (connectionAttemptScheduled /\ timers # <<>>) =>
    (~inboundTimer /\ ~outboundTimer)

\* C25: blocked is true exactly when the last of Connection.Blocked and
\* Connection.Unblocked received on the current transport was Blocked, and
\* blockedReason is empty whenever blocked is false; so a new transport
\* starts unblocked.
C25_BlockedReflectsCurrent ==
  /\ blocked = (hist.lastBlock = "Blocked")
  /\ ~blocked => blockedReason = null

====
